---- MODULE Spec2Model ----
(***************************************************************************)
(* Model of my-fullstack-app/server.js: an Express server with two         *)
(* handlers, POST /api/register and POST /api/login, over a PostgreSQL     *)
(* "users" table that initializeDatabase() creates from the listen         *)
(* callback.                                                               *)
(*                                                                         *)
(* Strings are sequences of character codes (ASCII, so one character is    *)
(* one byte).  A JSON request body is a function from the field names it   *)
(* carries to their values: strings, and a number, which is written as a   *)
(* sequence holding a negative code, as no string does; a field the body   *)
(* lacks is `undefined` in the handler.  Every `await` of the source is a  *)
(* point where other handlers may run, so each handler is cut into one     *)
(* action per await.                                                       *)
(*                                                                         *)
(* The store is another process.  It executes a statement that was sent    *)
(* to it in one step of its own, and its reply reaches the handler in a    *)
(* later step, with other handlers running in between.  The connection may *)
(* break before the statement is executed or after it, with the reply      *)
(* lost: the query of the handler is rejected in both cases.               *)
(***************************************************************************)
EXTENDS Integers, Sequences, FiniteSets, TLC

\* ---------------------------------------------------------------- bounds
MaxReq == 2            \* requests the server receives in one run
MaxSalt == 2           \* distinct salts bcrypt may draw
MaxClock == 1          \* latest reading of the store's clock

\* ------------------------------------------------------ program constants
UsernameMaxLen == 50       \* username VARCHAR(50)
PasswordHashMaxLen == 100  \* password_hash VARCHAR(100)
SaltRounds == 10           \* bcrypt.hash(password, 10)
BcryptMaxBytes == 72       \* bcrypt reads the first 72 bytes of the password

\* ----------------------------------------------------------------- strings
Rep(c, n) == [i \in 1..n |-> c]

Min(a, b) == IF a < b THEN a ELSE b

\* Usernames the requests may carry: "", "a", "A", fifty "u" followed by one
\* space, and fifty "u" followed by "x".
NameEmpty == << >>
NameLower == <<97>>
NameUpper == <<65>>
NamePadded == Rep(117, UsernameMaxLen) \o <<32>>
NameTooLong == Rep(117, UsernameMaxLen) \o <<120>>
Names == {NameEmpty, NameLower, NameUpper, NamePadded, NameTooLong}

\* Passwords: "", "x", and two passwords of 73 bytes that share their first 72.
PassEmpty == << >>
PassShort == <<120>>
PassLongX == Rep(107, BcryptMaxBytes) \o <<120>>
PassLongY == Rep(107, BcryptMaxBytes) \o <<121>>
Passwords == {PassEmpty, PassShort, PassLongX, PassLongY}

\* A password field that holds the JSON number 123 and not a string.
PassNumber == <<-123>>

\* typeof v === 'string'
IsString(v) == \A i \in 1..Len(v) : v[i] >= 0

\* req.body as express.json() leaves it: an object with any of the two fields.
Body(u, p) == [k \in {"username", "password"} |-> IF k = "username" THEN u ELSE p]

Bodies ==
    {Body(NameLower, p) : p \in Passwords}
    \cup {Body(u, PassShort) : u \in Names}
    \cup {Body(NameLower, PassNumber)}
    \cup {[k \in {"username"} |-> NameLower], [k \in {"password"} |-> PassShort]}

\* `!field` of the handlers: undefined and "" are falsy.
FalsyWhenMissing(body, k) == k \notin DOMAIN body

Falsy(body, k) == k \notin DOMAIN body \/ body[k] = << >>

\* ------------------------------------------------------------------ bcrypt
Salts == 1..MaxSalt

\* "$2b$10$": version and cost, the head of every bcrypt hash string.
BcryptPrefix ==
    <<36, 50, 98, 36, 48 + (SaltRounds \div 10), 48 + (SaltRounds % 10), 36>>

\* The key bcrypt derives the digest from.
BcryptKey(password) == SubSeq(password, 1, Min(Len(password), BcryptMaxBytes))

\* The digest: a one-way function of salt and key, idealised as free of
\* collisions (it is one-to-one in the key for each salt).
BcryptDigest(salt, key) == [i \in 1..Len(key) |-> (key[i] + salt) % 256]

BcryptHashPlain(password, salt) == password

\* A hash that writes the same salt every time.
BcryptHashUnsalted(password, salt) ==
    BcryptPrefix \o <<0>> \o BcryptDigest(0, BcryptKey(password))

BcryptHashWithSalt(password, salt) ==
    BcryptPrefix \o <<salt>> \o BcryptDigest(salt, BcryptKey(password))

\* bcrypt.compare: rehash the candidate with the salt read from the hash.
BcryptCompare(password, hash) ==
    /\ Len(hash) > Len(BcryptPrefix)
    /\ SubSeq(hash, 1, Len(BcryptPrefix)) = BcryptPrefix
    /\ BcryptHashWithSalt(password, hash[Len(BcryptPrefix) + 1]) = hash

\* ------------------------------------------------------------------- store
\* SQLSTATE codes the store answers with.
UniqueViolation == "23505"
StringTooLong == "22001"
UndefinedTable == "42P01"
ConnectionFailure == "08006"
NoError == "none"

\* The error bcrypt.hash and bcrypt.compare reject with; it has no code.
BcryptFailure == "bcrypt"

\* Assignment of a string to a VARCHAR(n) column: excess characters are
\* dropped when all of them are spaces (code 32), and refused otherwise.
VarcharFitsAlways(s, n) == TRUE
VarcharFits(s, n) == \A i \in (n + 1)..Len(s) : s[i] = 32
VarcharStore(s, n) == SubSeq(s, 1, Min(Len(s), n))

\* CREATE TABLE IF NOT EXISTS: an existing table keeps its rows.
CreateTableDropping(exists, rows) == << >>

CreateTableIfNotExists(exists, rows) == IF exists THEN rows ELSE << >>

\* The UNIQUE index on users.username.
UsernameTakenNever(rows, name) == FALSE

UsernameTaken(rows, name) == \E i \in 1..Len(rows) : rows[i].username = name

\* SELECT * FROM users WHERE username = $1
\* RETURNING id, username
ReturningAll(row) == row
Returning(row) == [id |-> row.id, username |-> row.username]

\* What the store answers a statement with: an error code or none, and the
\* rows returned.
Reply(code, rows) == [code |-> code, rows |-> rows]

SelectByUsername(rows, name) == SelectSeq(rows, LAMBDA r : r.username = name)

\* ---------------------------------------------------------------- responses
\* res.status(...).json(...): the status, the message (rendered in English
\* here) and, for 201, the row the INSERT returned.
Response(status, message, user) ==
    [status |-> status, message |-> message, user |-> user]
NoResponse == Response(0, "", << >>)
BadInput == Response(400, "fields must not be empty", << >>)
Created(row) == Response(201, "registered", <<row>>)
Conflict == Response(409, "username exists", << >>)
ServerError == Response(500, "internal server error", << >>)
LoginOk == Response(200, "logged in", << >>)
LoginRejectedNoUser == Response(401, "wrong username or password", << >>)
LoginRejectedMismatch == Response(401, "wrong username or password", << >>)

VARIABLES
    server,      \* "starting", "listening", "crashed"
    initPc,      \* initializeDatabase: "idle", "connecting", "creating"
                 \* (create query sent), "created" and "clashed" (executed
                 \* by the store, reply on its way), "ready", "failed",
                 \* "rejected"
    checkedOut,  \* clients checked out of the pool by pool.connect()
    schema,      \* TRUE when the users table exists
    users,       \* rows of the users table, in insertion order
    nextId,      \* next value of the sequence behind users.id (SERIAL)
    reqs,        \* the requests received so far, in order of arrival
    initFresh,   \* TRUE when the create query was sent with no users table
    initLogged,  \* the error initializeDatabase passed to console.error
    peer         \* initializeDatabase of a second start of the program on
                 \* the same database: its place, and the same two notes

starts == <<initFresh, initLogged, peer>>

vars == <<server, initPc, checkedOut, schema, users, nextId, reqs, starts>>

\* A handler invocation: the request, where its handler stands ("hashing",
\* "inserting" and "selecting" when its query is sent, "inserted" and
\* "selected" when the store has executed it and the reply is on its way,
\* "comparing", "done"), the salt bcrypt.hash drew (0 before it has), the
\* reply of the store, the locals passwordHash and result.rows, the response
\* sent, the err the catch block caught, the error passed to console.error,
\* and the requests that had been answered when this one arrived.
Req(kind, body, pc, res, prior) ==
    [kind |-> kind, body |-> body, pc |-> pc, salt |-> 0,
     passwordHash |-> << >>, reply |-> Reply(NoError, << >>), rows |-> << >>,
     res |-> res, err |-> NoError, logged |-> NoError, prior |-> prior]

Init ==
    /\ server = "starting"
    /\ initPc = "idle"
    /\ checkedOut = 0
    /\ schema \in BOOLEAN
    /\ users = << >>
    /\ nextId = 1
    /\ reqs = << >>
    /\ initFresh = FALSE
    /\ initLogged = NoError
    /\ peer = [pc |-> "off", fresh |-> FALSE, logged |-> NoError]

\* ------------------------------------------------------------------ startup
\* app.listen's callback: the server is accepting requests, and
\* initializeDatabase() is called without being awaited; it runs up to its
\* first await, pool.connect().
Listen ==
    /\ server = "starting"
    /\ server' = "listening"
    /\ initPc' = "connecting"
    /\ UNCHANGED <<checkedOut, schema, users, nextId, reqs, starts>>

\* pool.connect() resolves; client.query(CREATE TABLE IF NOT EXISTS ...) is sent.
InitConnected ==
    /\ server = "listening"
    /\ initPc = "connecting"
    /\ initPc' = "creating"
    /\ checkedOut' = checkedOut + 1
    /\ initFresh' = ~schema
    /\ UNCHANGED <<server, schema, users, nextId, reqs, initLogged, peer>>

\* pool.connect() rejects outside the try block: the promise of
\* initializeDatabase() rejects and nothing handles it.  Node either ends the
\* process on an unhandled rejection or only warns, depending on its version.
InitConnectFailed ==
    /\ server = "listening"
    /\ initPc = "connecting"
    /\ initPc' = "rejected"
    /\ server' \in {"listening", "crashed"}
    /\ UNCHANGED <<checkedOut, schema, users, nextId, reqs, starts>>

\* The places of initializeDatabase at which it holds its client.
Holding == {"creating", "created", "clashed"}

\* The store executes CREATE TABLE IF NOT EXISTS: the table exists from now
\* on, with the rows it had.
StoreCreate ==
    /\ initPc = "creating"
    /\ schema' = TRUE
    /\ users' = CreateTableIfNotExists(schema, users)
    /\ initPc' = "created"
    /\ UNCHANGED <<server, checkedOut, nextId, reqs, starts>>

\* CREATE TABLE IF NOT EXISTS looks for the table and then creates it, and
\* the two are not one step for the store: when another session created the
\* table after this statement was sent, the statement either finds the table
\* (StoreCreate) or has looked before and fails on the catalog's unique index
\* with SQLSTATE 23505.
StoreCreateClash ==
    /\ initPc = "creating"
    /\ initFresh /\ schema
    /\ initPc' = "clashed"
    /\ UNCHANGED <<server, checkedOut, schema, users, nextId, reqs, starts>>

\* client.query resolves; finally releases the client.
InitCreated ==
    /\ server = "listening"
    /\ initPc = "created"
    /\ initPc' = "ready"
    /\ checkedOut' = checkedOut - 1
    /\ UNCHANGED <<server, schema, users, nextId, reqs, starts>>

\* The catch block without the finally block: the client is not released.
InitCreateFailedLeaking ==
    /\ server = "listening"
    /\ initPc \in Holding
    /\ initPc' = "failed"
    /\ initLogged' = ConnectionFailure
    /\ UNCHANGED <<server, checkedOut, schema, users, nextId, reqs, initFresh, peer>>

\* client.query rejects because the connection broke, before the store
\* executed the statement or after it: the catch block logs the error and
\* returns; finally releases the client.
InitCreateFailed ==
    /\ server = "listening"
    /\ initPc \in Holding
    /\ initPc' = "failed"
    /\ initLogged' = ConnectionFailure
    /\ checkedOut' = checkedOut - 1
    /\ UNCHANGED <<server, schema, users, nextId, reqs, initFresh, peer>>

\* client.query rejects with the store's 23505: the catch block logs it.
InitCreateClashed ==
    /\ server = "listening"
    /\ initPc = "clashed"
    /\ initPc' = "failed"
    /\ initLogged' = UniqueViolation
    /\ checkedOut' = checkedOut - 1
    /\ UNCHANGED <<server, schema, users, nextId, reqs, initFresh, peer>>

\* ------------------------------------------------------------ second start
\* A second start of the program against the same database runs the same
\* initializeDatabase; its server and its pool are its own.
PeerListen ==
    /\ peer.pc = "idle"
    /\ peer' = [peer EXCEPT !.pc = "connecting"]
    /\ UNCHANGED <<server, initPc, checkedOut, schema, users, nextId, reqs,
                   initFresh, initLogged>>

PeerConnected ==
    /\ peer.pc = "connecting"
    /\ peer' = [peer EXCEPT !.pc = "creating", !.fresh = ~schema]
    /\ UNCHANGED <<server, initPc, checkedOut, schema, users, nextId, reqs,
                   initFresh, initLogged>>

PeerConnectFailed ==
    /\ peer.pc = "connecting"
    /\ peer' = [peer EXCEPT !.pc = "rejected"]
    /\ UNCHANGED <<server, initPc, checkedOut, schema, users, nextId, reqs,
                   initFresh, initLogged>>

PeerStoreCreate ==
    /\ peer.pc = "creating"
    /\ schema' = TRUE
    /\ users' = CreateTableIfNotExists(schema, users)
    /\ peer' = [peer EXCEPT !.pc = "created"]
    /\ UNCHANGED <<server, initPc, checkedOut, nextId, reqs, initFresh, initLogged>>

PeerStoreCreateClash ==
    /\ peer.pc = "creating"
    /\ peer.fresh /\ schema
    /\ peer' = [peer EXCEPT !.pc = "clashed"]
    /\ UNCHANGED <<server, initPc, checkedOut, schema, users, nextId, reqs,
                   initFresh, initLogged>>

PeerCreated ==
    /\ peer.pc = "created"
    /\ peer' = [peer EXCEPT !.pc = "ready"]
    /\ UNCHANGED <<server, initPc, checkedOut, schema, users, nextId, reqs,
                   initFresh, initLogged>>

PeerCreateFailed ==
    /\ peer.pc \in Holding
    /\ peer' = [peer EXCEPT !.pc = "failed", !.logged = ConnectionFailure]
    /\ UNCHANGED <<server, initPc, checkedOut, schema, users, nextId, reqs,
                   initFresh, initLogged>>

PeerCreateClashed ==
    /\ peer.pc = "clashed"
    /\ peer' = [peer EXCEPT !.pc = "failed", !.logged = UniqueViolation]
    /\ UNCHANGED <<server, initPc, checkedOut, schema, users, nextId, reqs,
                   initFresh, initLogged>>

\* ----------------------------------------------------------------- handlers
\* The event loop runs the continuation of any handler whose awaited promise
\* has settled: bcrypt works on a thread of its pool and the store on its
\* own, so a pending hash keeps no other handler from running.
RunnableOneAtATime(i) ==
    /\ server = "listening"
    /\ \A j \in 1..Len(reqs) : j # i => reqs[j].pc \notin {"hashing", "comparing"}

Runnable(i) == server = "listening"

\* bcrypt.hash draws its salt at random (16 bytes): a salt is taken never to
\* be drawn twice.
UsedSalts == {reqs[j].salt : j \in 1..Len(reqs)}

Responded == {j \in 1..Len(reqs) : reqs[j].pc = "done"}

Finish(r, res, code) == [r EXCEPT !.pc = "done", !.res = res, !.logged = code]

\* A request arrives and its handler runs up to its first await: the check of
\* the two fields, then bcrypt.hash (register) or pool.query (login).
Receive(kind, body) ==
    /\ server = "listening"
    /\ Len(reqs) < MaxReq
    /\ reqs' = Append(reqs,
        IF Falsy(body, "username") \/ Falsy(body, "password")
        THEN Req(kind, body, "done", BadInput, Responded)
        ELSE Req(kind, body, IF kind = "register" THEN "hashing" ELSE "selecting",
                 NoResponse, Responded))
    /\ UNCHANGED <<server, initPc, checkedOut, schema, users, nextId, starts>>

\* bcrypt.hash resolves with a fresh salt; pool.query(INSERT ...) is sent.
\* It resolves for a string only.
RegisterHashed(i) ==
    /\ Runnable(i)
    /\ reqs[i].kind = "register"
    /\ reqs[i].pc = "hashing"
    /\ IsString(reqs[i].body.password)
    /\ \E salt \in Salts \ UsedSalts :
        reqs' = [reqs EXCEPT ![i].pc = "inserting",
                    ![i].salt = salt,
                    ![i].passwordHash =
                        BcryptHashWithSalt(reqs[i].body.password, salt)]
    /\ UNCHANGED <<server, initPc, checkedOut, schema, users, nextId, starts>>

\* The row INSERT ... RETURNING id, username adds.
NewRow(id, username, passwordHash, createdAt) ==
    [id |-> id,
     username |-> VarcharStore(username, UsernameMaxLen),
     password_hash |-> VarcharStore(passwordHash, PasswordHashMaxLen),
     created_at |-> createdAt]

\* The error the store raises for the INSERT, if any.
InsertError(exists, rows, username, passwordHash) ==
    IF ~exists THEN UndefinedTable
    ELSE IF ~VarcharFits(username, UsernameMaxLen)
            \/ ~VarcharFits(passwordHash, PasswordHashMaxLen) THEN StringTooLong
    ELSE IF UsernameTaken(rows, VarcharStore(username, UsernameMaxLen))
        THEN UniqueViolation
    ELSE NoError

\* The catch block of the register handler: 409 for err.code 23505, and for
\* any other error console.error(err) and 500.
RegisterCatchAllConflict(r, code) ==
    [Finish(r, Conflict, NoError) EXCEPT !.err = code]

RegisterCatch(r, code) ==
    IF code = UniqueViolation
    THEN [Finish(r, Conflict, NoError) EXCEPT !.err = code]
    ELSE [Finish(r, ServerError, code) EXCEPT !.err = code]

\* The catch block of the login handler: console.error(err) and 500.
LoginCatch(r, code) == [Finish(r, ServerError, code) EXCEPT !.err = code]

\* The store executes the INSERT.  created_at is what the store's clock
\* reads (CURRENT_TIMESTAMP), whatever that is.
StoreInsert(i) ==
    /\ reqs[i].kind = "register"
    /\ reqs[i].pc = "inserting"
    /\ \E t \in 0..MaxClock :
       LET r == reqs[i]
           row == NewRow(nextId, r.body.username, r.passwordHash, t)
           code == InsertError(schema, users, r.body.username, r.passwordHash)
       IN
        IF code = NoError THEN
            /\ users' = Append(users, row)
            /\ nextId' = nextId + 1
            /\ reqs' = [reqs EXCEPT ![i].pc = "inserted",
                            ![i].reply = Reply(NoError, <<Returning(row)>>)]
        ELSE
            /\ reqs' = [reqs EXCEPT ![i].pc = "inserted",
                            ![i].reply = Reply(code, << >>)]
            /\ UNCHANGED users
            \* the sequence value drawn for a row the index refuses is not
            \* reused; whether one was drawn before an over-long value was
            \* refused depends on the plan the store chose
            /\ nextId' \in
                CASE code = UniqueViolation -> {nextId + 1}
                  [] code = StringTooLong -> {nextId, nextId + 1}
                  [] OTHER -> {nextId}
    /\ UNCHANGED <<server, initPc, checkedOut, schema, starts>>

\* The reply of the store reaches the handler: 201 with the row returned, or
\* the catch block.
RegisterInserted(i) ==
    /\ Runnable(i)
    /\ reqs[i].kind = "register"
    /\ reqs[i].pc = "inserted"
    /\ LET r == reqs[i] IN
        reqs' = [reqs EXCEPT ![i] =
            IF r.reply.code = NoError
            THEN Finish(r, Created(r.reply.rows[1]), NoError)
            ELSE RegisterCatch(r, r.reply.code)]
    /\ UNCHANGED <<server, initPc, checkedOut, schema, users, nextId, starts>>

\* bcrypt.hash rejects, as it does for a password that is not a string and
\* as it may when the library fails: the catch block logs the error and
\* answers 500, and no INSERT is sent.
RegisterHashFailed(i) ==
    /\ Runnable(i)
    /\ reqs[i].kind = "register"
    /\ reqs[i].pc = "hashing"
    /\ reqs' = [reqs EXCEPT ![i] = RegisterCatch(reqs[i], BcryptFailure)]
    /\ UNCHANGED <<server, initPc, checkedOut, schema, users, nextId, starts>>

\* pool.query rejects because there is no connection or it broke, before
\* the store executed the INSERT or after it: the catch block logs the error
\* and answers 500.
RegisterStoreFailed(i) ==
    /\ Runnable(i)
    /\ reqs[i].kind = "register"
    /\ reqs[i].pc \in {"inserting", "inserted"}
    /\ reqs' = [reqs EXCEPT ![i] = RegisterCatch(reqs[i], ConnectionFailure)]
    /\ UNCHANGED <<server, initPc, checkedOut, schema, users, nextId, starts>>

\* The store executes the SELECT on the table as it is then.
StoreSelect(i) ==
    /\ reqs[i].kind = "login"
    /\ reqs[i].pc = "selecting"
    /\ reqs' = [reqs EXCEPT ![i].pc = "selected",
                    ![i].reply =
                        IF ~schema THEN Reply(UndefinedTable, << >>)
                        ELSE Reply(NoError,
                                   SelectByUsername(users, reqs[i].body.username))]
    /\ UNCHANGED <<server, initPc, checkedOut, schema, users, nextId, starts>>

\* The reply of the store reaches the handler: without a row it answers 401,
\* with one it calls bcrypt.compare.
LoginSelected(i) ==
    /\ Runnable(i)
    /\ reqs[i].kind = "login"
    /\ reqs[i].pc = "selected"
    /\ LET r == reqs[i] IN
        IF r.reply.code # NoError THEN
            reqs' = [reqs EXCEPT ![i] = LoginCatch(r, r.reply.code)]
        ELSE IF r.reply.rows = << >> THEN
            reqs' = [reqs EXCEPT ![i] = Finish(r, LoginRejectedNoUser, NoError)]
        ELSE
            reqs' = [reqs EXCEPT ![i].pc = "comparing", ![i].rows = r.reply.rows]
    /\ UNCHANGED <<server, initPc, checkedOut, schema, users, nextId, starts>>

\* pool.query rejects because there is no connection or it broke.
LoginStoreFailed(i) ==
    /\ Runnable(i)
    /\ reqs[i].kind = "login"
    /\ reqs[i].pc \in {"selecting", "selected"}
    /\ reqs' = [reqs EXCEPT ![i] = LoginCatch(reqs[i], ConnectionFailure)]
    /\ UNCHANGED <<server, initPc, checkedOut, schema, users, nextId, starts>>

\* bcrypt.compare resolves, as it does for a string only, and the handler
\* answers 200 or 401.
LoginCompared(i) ==
    /\ Runnable(i)
    /\ reqs[i].kind = "login"
    /\ reqs[i].pc = "comparing"
    /\ IsString(reqs[i].body.password)
    /\ LET r == reqs[i]
           user == r.rows[1]
       IN
        reqs' = [reqs EXCEPT ![i] =
            Finish(r,
                   IF BcryptCompare(r.body.password, user.password_hash)
                   THEN LoginOk ELSE LoginRejectedMismatch,
                   NoError)]
    /\ UNCHANGED <<server, initPc, checkedOut, schema, users, nextId, starts>>

\* bcrypt.compare rejects, as it does for a password that is not a string
\* and as it may when the library fails: the catch block logs the error and
\* answers 500.
LoginCompareFailed(i) ==
    /\ Runnable(i)
    /\ reqs[i].kind = "login"
    /\ reqs[i].pc = "comparing"
    /\ reqs' = [reqs EXCEPT ![i] = LoginCatch(reqs[i], BcryptFailure)]
    /\ UNCHANGED <<server, initPc, checkedOut, schema, users, nextId, starts>>

\* The next step of request i: of its handler, or of the store on the
\* statement the handler sent.
StepOf(i) ==
    \/ RegisterHashed(i)
    \/ RegisterHashFailed(i)
    \/ StoreInsert(i)
    \/ RegisterInserted(i)
    \/ RegisterStoreFailed(i)
    \/ StoreSelect(i)
    \/ LoginSelected(i)
    \/ LoginStoreFailed(i)
    \/ LoginCompared(i)
    \/ LoginCompareFailed(i)

Next ==
    \/ Listen
    \/ InitConnected
    \/ InitConnectFailed
    \/ StoreCreate
    \/ InitCreated
    \/ InitCreateFailed
    \/ \E kind \in {"register", "login"}, body \in Bodies : Receive(kind, body)
    \/ \E i \in 1..Len(reqs) : RegisterHashed(i)
    \/ \E i \in 1..Len(reqs) : RegisterHashFailed(i)
    \/ \E i \in 1..Len(reqs) : StoreInsert(i)
    \/ \E i \in 1..Len(reqs) : RegisterInserted(i)
    \/ \E i \in 1..Len(reqs) : RegisterStoreFailed(i)
    \/ \E i \in 1..Len(reqs) : StoreSelect(i)
    \/ \E i \in 1..Len(reqs) : LoginSelected(i)
    \/ \E i \in 1..Len(reqs) : LoginStoreFailed(i)
    \/ \E i \in 1..Len(reqs) : LoginCompared(i)
    \/ \E i \in 1..Len(reqs) : LoginCompareFailed(i)

Spec == Init /\ [][Next]_vars

\* The program started twice on one database.
InitStarts ==
    /\ server = "starting"
    /\ initPc = "idle"
    /\ checkedOut = 0
    /\ schema \in BOOLEAN
    /\ users = << >>
    /\ nextId = 1
    /\ reqs = << >>
    /\ initFresh = FALSE
    /\ initLogged = NoError
    /\ peer = [pc |-> "idle", fresh |-> FALSE, logged |-> NoError]

\* The requests the two-start runs carry: a register and a login for "a".
StartBodies == {Body(NameLower, PassShort)}

NextStarts ==
    \/ Listen
    \/ InitConnected
    \/ InitConnectFailed
    \/ StoreCreate
    \/ StoreCreateClash
    \/ InitCreated
    \/ InitCreateFailed
    \/ InitCreateClashed
    \/ PeerListen
    \/ PeerConnected
    \/ PeerConnectFailed
    \/ PeerStoreCreate
    \/ PeerStoreCreateClash
    \/ PeerCreated
    \/ PeerCreateFailed
    \/ PeerCreateClashed
    \/ \E kind \in {"register", "login"}, body \in StartBodies : Receive(kind, body)
    \/ \E i \in 1..Len(reqs) : StepOf(i)

SpecStarts == InitStarts /\ [][NextStarts]_vars

\* ------------------------------------------------------------------ claims
IsRegister(i) == reqs[i].kind = "register"
IsLogin(i) == reqs[i].kind = "login"
Done(i) == reqs[i].pc = "done"
Status(i) == reqs[i].res.status
ValidInput(i) ==
    ~Falsy(reqs[i].body, "username") /\ ~Falsy(reqs[i].body, "password")
\* The store answered request i's statement: the table was there and the
\* connection held.
StoreWorked(i) == reqs[i].logged \notin {UndefinedTable, ConnectionFailure}
\* bcrypt.hash or bcrypt.compare did not reject in request i.
HashWorked(i) == reqs[i].logged # BcryptFailure

\* The finished register requests for username u with both fields given.
RegistersOf(u) ==
    {i \in 1..Len(reqs) : IsRegister(i) /\ ValidInput(i) /\ reqs[i].body.username = u}

ExactlyOneSuccess(S) ==
    /\ Cardinality({i \in S : Status(i) = 201}) = 1
    /\ \A i \in S : Status(i) \in {201, 409}
    /\ \A i \in S : Status(i) = 201 => reqs[i].res.user # << >>

AllAnswered(S) == \A i \in S : Done(i) /\ StoreWorked(i) /\ HashWorked(i)

\* C1 as stated: for any username, two or more register calls that all met a
\* working store with the schema present, and whose hashing did not fail, end
\* with exactly one 201 and 409 for every other one.
C1_AnyUsernameOneSuccess ==
    \A u \in Names :
        (Cardinality(RegistersOf(u)) >= 2 /\ AllAnswered(RegistersOf(u)))
            => ExactlyOneSuccess(RegistersOf(u))

\* C1 amended: for any username the username column accepts (at most 50
\* characters, not counting spaces past the 50th), two or more register calls
\* that all met a working store with the schema present, and whose hashing
\* did not fail, end with exactly one 201 carrying id and username, and 409
\* for every other one.
C1_OneSuccessPerUsername ==
    \A u \in Names :
        (/\ VarcharFits(u, UsernameMaxLen)
         /\ Cardinality(RegistersOf(u)) >= 2
         /\ AllAnswered(RegistersOf(u)))
            => ExactlyOneSuccess(RegistersOf(u))

\* Two register calls for "a" that were in flight together, one answered 201
\* and the other 409.
C1_Witness ==
    /\ Len(reqs) = 2
    /\ RegistersOf(NameLower) = {1, 2}
    /\ AllAnswered({1, 2})
    /\ reqs[2].prior = {}
    /\ {Status(1), Status(2)} = {201, 409}

\* C2: a login that arrives after a register with the same username and
\* password was answered 201, whose lookup the store answers and whose
\* verification does not fail, is answered 200.
C2_RegisterThenAuthenticate ==
    \A j \in 1..Len(reqs) :
        (/\ IsLogin(j) /\ Done(j) /\ ValidInput(j) /\ StoreWorked(j) /\ HashWorked(j)
         /\ \E i \in reqs[j].prior :
                IsRegister(i) /\ Status(i) = 201 /\ reqs[i].body = reqs[j].body)
            => Status(j) = 200

\* The store added a row for register call i.
Inserted(i) == IsRegister(i) /\ reqs[i].reply.rows # << >>

\* C3: a login is answered 200 only if a record for its username exists and
\* its password is the one that record was registered with.
C3_AcceptOnlyTheRegisteredPassword ==
    \A j \in 1..Len(reqs) :
        (IsLogin(j) /\ Done(j) /\ Status(j) = 200)
            => \E i \in 1..Len(reqs) :
                /\ Inserted(i)
                /\ reqs[i].reply.rows[1].username = reqs[j].body.username
                /\ reqs[i].body.password = reqs[j].body.password

\* The two ways a login is not accepted: no row for its username, or a row
\* and no 200.  A login whose bcrypt.compare rejected on a string password
\* met a failure of the library and is set aside; one whose password is not
\* a string is rejected by bcrypt.compare whenever the row is found.
RejectedNoUser(j) ==
    /\ IsLogin(j) /\ Done(j) /\ ValidInput(j) /\ reqs[j].logged = NoError
    /\ reqs[j].rows = << >>
RejectedMismatch(j) ==
    /\ IsLogin(j) /\ Done(j)
    /\ (reqs[j].logged = NoError \/ ~IsString(reqs[j].body.password))
    /\ reqs[j].rows # << >> /\ Status(j) # 200

\* C4: the answer to a login for a username without a record is the answer
\* the handler gives when the record is found and the login is not accepted,
\* and the other way round, with the same status and the same body.
C4_IdenticalRejection ==
    /\ \A j \in 1..Len(reqs) :
        RejectedNoUser(j) => reqs[j].res = LoginRejectedMismatch
    /\ \A j \in 1..Len(reqs) :
        RejectedMismatch(j) => reqs[j].res = LoginRejectedNoUser
    /\ \A j, k \in 1..Len(reqs) :
        (RejectedNoUser(j) /\ RejectedMismatch(k)) => reqs[j].res = reqs[k].res

\* C5: once initializeDatabase has failed (pool.connect or the create query),
\* no request is received and no handler takes a step.
C5_InitFailureIsFatal ==
    [][(initPc \in {"failed", "rejected"}) => (reqs' = reqs)]_vars

\* C6: a request is received, and a handler takes a step, only when
\* initializeDatabase has finished successfully.
C6_InitBeforeRequests ==
    [][(reqs' # reqs) => (initPc = "ready")]_vars

\* C7: no two rows of users have the same username, compared code by code.
C7_UniqueUsernames ==
    \A i, j \in 1..Len(users) :
        i # j => users[i].username # users[j].username

\* "a" and "A" are both registered: two rows whose usernames differ in case
\* only.
C7_Witness ==
    /\ Len(users) = 2
    /\ {users[1].username, users[2].username} = {NameLower, NameUpper}

\* The row a register call answered 201 created.
RowOf(i) == CHOOSE k \in 1..Len(users) : users[k].id = reqs[i].res.user[1].id

\* C8: the password_hash of every row is non-empty and is not the password
\* of the register call that created the row, and no row's password_hash is
\* the password of any request.
C8_NoPlaintextStored ==
    /\ \A k \in 1..Len(users) : users[k].password_hash # << >>
    /\ \A i \in 1..Len(reqs) :
        (IsRegister(i) /\ Status(i) = 201)
            => users[RowOf(i)].password_hash # reqs[i].body.password
    /\ \A k \in 1..Len(users), i \in 1..Len(reqs) :
        "password" \in DOMAIN reqs[i].body
            => users[k].password_hash # reqs[i].body.password

\* Two rows created by register calls with different passwords.
C8_Witness ==
    /\ Len(users) = 2
    /\ Len(reqs) = 2
    /\ Status(1) = 201 /\ Status(2) = 201
    /\ reqs[1].body.password # reqs[2].body.password

\* The rows the store added for register call i.
RowsBy(i) ==
    {k \in 1..Len(users) :
        reqs[i].reply.rows # << >> /\ users[k].id = reqs[i].reply.rows[1].id}

\* C9: a register call that was answered 201 has created exactly one row,
\* and one that was answered 400, 409 or 500 has created none; no call
\* creates more than one row.
C9_OneRecordIffSuccess ==
    \A i \in 1..Len(reqs) :
        IsRegister(i) =>
            /\ Cardinality(RowsBy(i)) <= 1
            /\ Done(i) => (Status(i) = 201 <=> Cardinality(RowsBy(i)) = 1)

\* The steps of login handlers.
LoginStep ==
    \E i \in 1..Len(reqs') :
        /\ reqs'[i].kind = "login"
        /\ (i > Len(reqs) \/ reqs'[i] # reqs[i])

\* C10: every row stays as it is (id, username, password_hash, created_at) in
\* every later state; a step of a login handler leaves the table unchanged,
\* and any other step leaves it unchanged or adds one row at its end.
C10_RecordsImmutable ==
    [][/\ Len(users') \in {Len(users), Len(users) + 1}
       /\ \A k \in 1..Len(users) : users'[k] = users[k]
       /\ LoginStep => users' = users]_vars

\* A row exists, a login for it was answered 200, and the table creation of
\* the start-up has run with the row in place.
C10_Witness ==
    /\ Len(users) = 1
    /\ initPc = "ready"
    /\ \E j \in 1..Len(reqs) : IsLogin(j) /\ Status(j) = 200

\* Request i lacks a field or carries an empty one.
MissingOrEmpty(r) ==
    \E k \in {"username", "password"} : k \notin DOMAIN r.body \/ Len(r.body[k]) = 0

\* C11: a register or login request that lacks username or password, or
\* carries an empty one, is answered 400 in the step that receives it: it
\* is never found waiting on bcrypt or the store, no salt was drawn and no
\* hash computed for it, the store executed no statement for it, no rows
\* were read for it, no error was caught or
\* logged for it, and the step leaves the table and its sequence as they are.
C11_BadInputBeforeStore ==
    /\ [](\A i \in 1..Len(reqs) :
            MissingOrEmpty(reqs[i]) =>
                /\ reqs[i].pc = "done"
                /\ reqs[i].res = Response(400, "fields must not be empty", << >>)
                /\ reqs[i].salt = 0 /\ reqs[i].passwordHash = << >>
                /\ reqs[i].reply = Reply(NoError, << >>)
                /\ reqs[i].rows = << >>
                /\ reqs[i].err = NoError /\ reqs[i].logged = NoError)
    /\ [][(Len(reqs') > Len(reqs) /\ MissingOrEmpty(reqs'[Len(reqs')]))
            => UNCHANGED <<schema, users, nextId>>]_vars

\* A register call without username and a login with an empty password, both
\* answered 400.
C11_Witness ==
    /\ Len(reqs) = 2
    /\ IsRegister(1) /\ "username" \notin DOMAIN reqs[1].body /\ Status(1) = 400
    /\ IsLogin(2) /\ reqs[2].body = Body(NameLower, PassEmpty) /\ Status(2) = 400

\* C12: a register call whose INSERT hit the UNIQUE index is answered 409;
\* one that caught any other error, of the store or of bcrypt.hash, is
\* answered 500 and logs it; a login that caught an error is answered 500
\* and logs it, never 200 or 401; a 409 is
\* sent for the UNIQUE index only; and every 500 is the same response,
\* without the error's code.
C12_StoreFailuresDistinct ==
    \A i \in 1..Len(reqs) :
        LET r == reqs[i] IN
        /\ (r.kind = "register" /\ r.err = UniqueViolation) => r.res.status = 409
        /\ (r.kind = "register" /\ r.err \notin {NoError, UniqueViolation})
            => (r.res.status = 500 /\ r.logged = r.err)
        /\ (r.kind = "login" /\ r.err # NoError)
            => (r.res.status = 500 /\ r.logged = r.err)
        /\ r.res.status = 409 => r.err = UniqueViolation
        /\ r.res.status = 500 =>
            /\ r.err \notin {NoError, UniqueViolation}
            /\ r.res = Response(500, "internal server error", << >>)
            /\ r.res.message # r.err

\* A register call whose username the column refused and a login that lost
\* its connection, both answered 500 with the error logged.
C12_Witness ==
    /\ Len(reqs) = 2
    /\ IsRegister(1) /\ reqs[1].err = StringTooLong /\ Status(1) = 500
    /\ IsLogin(2) /\ reqs[2].err = ConnectionFailure /\ Status(2) = 500
    /\ reqs[1].logged = StringTooLong /\ reqs[2].logged = ConnectionFailure

\* A step in which a create query that was sent with the table in place is
\* answered.
CreateOnExisting ==
    \/ initPc = "creating" /\ initPc' # "creating" /\ ~initFresh
    \/ peer.pc = "creating" /\ peer'.pc # "creating" /\ ~peer.fresh
    \/ initPc = "creating" /\ initPc' = "created" /\ schema
    \/ peer.pc = "creating" /\ peer'.pc = "created" /\ schema

\* C13: whether two starts run initializeDatabase one after the other or at
\* once, neither logs an error of the store's other than a lost connection,
\* the table is there after each create query that is answered without one,
\* and a create query sent with the table in place leaves the table and its
\* rows as they are.
C13_IdempotentInit ==
    [][/\ initLogged' \in {NoError, ConnectionFailure}
       /\ peer'.logged \in {NoError, ConnectionFailure}
       /\ (initPc' = "ready" \/ peer'.pc = "ready") => schema'
       /\ CreateOnExisting => (schema' = schema /\ users' = users)]_vars

\* Every invocation that was started has finished.
AllFinished ==
    /\ initPc \in {"ready", "failed", "rejected"}
    /\ \A i \in 1..Len(reqs) : Done(i)

\* C14: the only client held is the one initializeDatabase holds while its
\* create query is outstanding; it is released once, by the step that ends
\* the query, whether the query succeeded or threw; nothing is released that
\* was not acquired (a failed pool.connect acquires nothing and releases
\* nothing); and when all invocations have finished no client is held.
C14_ConnectionsReturned ==
    /\ [](checkedOut = IF initPc \in Holding THEN 1 ELSE 0)
    /\ [](AllFinished => checkedOut = 0)
    /\ [][/\ (initPc \in Holding /\ initPc' \notin Holding)
              => (initPc' \in {"ready", "failed"} /\ checkedOut' = checkedOut - 1)
          /\ (checkedOut' < checkedOut)
              => (initPc \in Holding /\ initPc' \notin Holding)
          /\ (checkedOut' > checkedOut)
              => (initPc = "connecting" /\ initPc' = "creating"
                  /\ checkedOut' = checkedOut + 1)]_vars

\* The create query threw and its client was released, and an expected
\* rejection and an unexpected error were answered.
C14_Witness ==
    /\ initPc = "failed"
    /\ checkedOut = 0
    /\ AllFinished
    /\ \E i, j \in 1..Len(reqs) : Status(i) = 401 /\ Status(j) = 500

\* The messages of the responses.
Messages ==
    {"fields must not be empty", "registered", "username exists",
     "internal server error", "logged in", "wrong username or password"}

\* C15: a response carries a status, one of the fixed messages and, for a
\* 201 only, one record with exactly the fields id and username, those of the
\* row created; every response of a login carries no record at all.
C15_NoSecretInResponse ==
    \A i \in 1..Len(reqs) :
        /\ Done(i) => reqs[i].res.message \in Messages
        /\ DOMAIN reqs[i].res = {"status", "message", "user"}
        /\ IF IsRegister(i) /\ Status(i) = 201
           THEN /\ Len(reqs[i].res.user) = 1
                /\ DOMAIN reqs[i].res.user[1] = {"id", "username"}
                /\ \E k \in 1..Len(users) :
                       /\ users[k].id = reqs[i].res.user[1].id
                       /\ users[k].username = reqs[i].res.user[1].username
           ELSE reqs[i].res.user = << >>

\* A register answered 201 and a login of the same user answered 200 after
\* reading the row with its password_hash.
C15_Witness ==
    \E i, j \in 1..Len(reqs) :
        /\ IsRegister(i) /\ Status(i) = 201
        /\ IsLogin(j) /\ Status(j) = 200
        /\ Len(reqs[j].rows) = 1
        /\ reqs[j].rows[1].password_hash # << >>

Suspended(i) == reqs[i].pc \in {"hashing", "comparing"}

\* The requests whose record a step changes or adds.
Touched ==
    {i \in 1..Len(reqs') : i > Len(reqs) \/ reqs'[i] # reqs[i]}

\* C16: in a running server, while a request is suspended in bcrypt.hash or
\* bcrypt.compare every other unfinished request can take its next step; and
\* a step changes the record of one request at most and never removes one, so
\* the handlers share no state in the process (the table of the store is all
\* they share).
C16_HashingDoesNotBlock ==
    /\ [](server = "listening" =>
            \A i, j \in 1..Len(reqs) :
                (i # j /\ Suspended(i) /\ ~Done(j)) => ENABLED StepOf(j))
    /\ [][/\ Len(reqs') >= Len(reqs)
          /\ \A i, j \in Touched : i = j]_vars

\* The first request is still suspended in bcrypt.hash when a register that
\* arrived after it has been through its own hashing and insert and has been
\* answered 201.
C16_Witness ==
    /\ Len(reqs) = 2
    /\ reqs[1].pc = "hashing"
    /\ IsRegister(2) /\ Status(2) = 201

\* A step that answers the login of request j with 401.
Rejects(j) ==
    /\ IsLogin(j)
    /\ ~Done(j)
    /\ reqs'[j].pc = "done"
    /\ reqs'[j].res.status = 401

\* C17: every 401 of a login is sent by the step that follows bcrypt.compare,
\* for a username that is absent as for one that is found with another
\* password: lookup, then verification, then rejection.
C17_SameStepsWhenAbsent ==
    [][\A j \in 1..Len(reqs) : Rejects(j) => reqs[j].pc = "comparing"]_vars

\* The registers answered 201.
CreatedBy == {i \in 1..Len(reqs) : IsRegister(i) /\ Status(i) = 201}

\* The same password hashed with two salts gives two hashes, each of which
\* verifies against the password.
HashTwice ==
    \A p \in Passwords \ {PassEmpty} : \A s1, s2 \in Salts :
        /\ BcryptCompare(p, BcryptHashWithSalt(p, s1))
        /\ s1 # s2 => BcryptHashWithSalt(p, s1) # BcryptHashWithSalt(p, s2)

\* C18: the same password hashed with two salts gives two hashes, and each
\* verifies against the password; the rows of two registers with the same
\* password hold different hashes, each of which verifies against the
\* password; and a login that found a row and brought the password the row
\* was registered with is answered 200 when bcrypt.compare resolves.
C18_SaltedHashing ==
    /\ HashTwice
    /\ \A i, j \in CreatedBy :
          /\ BcryptCompare(reqs[i].body.password, users[RowOf(i)].password_hash)
          /\ (i # j /\ reqs[i].body.password = reqs[j].body.password)
                => users[RowOf(i)].password_hash # users[RowOf(j)].password_hash
    /\ \A i \in CreatedBy : \A j \in 1..Len(reqs) :
          (/\ IsLogin(j) /\ Done(j) /\ HashWorked(j)
           /\ reqs[j].rows = <<users[RowOf(i)]>>
           /\ reqs[j].body.password = reqs[i].body.password)
             => Status(j) = 200

\* Two users registered with the same password.
C18_Witness ==
    \E i, j \in CreatedBy :
        /\ i # j
        /\ reqs[i].body.password = reqs[j].body.password
        /\ reqs[i].body.username # reqs[j].body.username
        /\ Len(users) = 2

\* The statuses each handler sends.
RegisterStatuses == {400, 201, 409, 500}
LoginStatuses == {400, 200, 401, 500}

\* C19: every request that was received either has been answered, with one
\* response whose status is among those of its handler, or has sent nothing
\* yet and can take the next step of its handler; no request is left without
\* a response and without a step to take.
C19_ExactlyOneResponse ==
    \A i \in 1..Len(reqs) :
        IF Done(i)
        THEN Status(i) \in (IF IsRegister(i) THEN RegisterStatuses ELSE LoginStatuses)
        ELSE reqs[i].res = NoResponse /\ ENABLED StepOf(i)

\* The registers that passed the check of the two fields, whose hashing
\* resolved and whose INSERT the store answered.
InsertAnswered ==
    {i \in 1..Len(reqs) :
        /\ IsRegister(i) /\ ValidInput(i) /\ Done(i)
        /\ HashWorked(i) /\ StoreWorked(i)}

\* The username of request i has a character other than a space after its
\* 50th.
Overlong(i) ==
    \E k \in (UsernameMaxLen + 1)..Len(reqs[i].body.username) :
        reqs[i].body.username[k] # 32

\* C20 as stated: a register whose username is longer than 50 characters and
\* whose INSERT the store answered is answered 500 and creates no record, and
\* every stored username has between 1 and 50 characters.
C20_LongUsernameRefused ==
    /\ \A i \in InsertAnswered :
          Len(reqs[i].body.username) > UsernameMaxLen =>
              /\ reqs[i].res = ServerError
              /\ \A k \in 1..Len(users) : users[k].password_hash # reqs[i].passwordHash
    /\ \A k \in 1..Len(users) : Len(users[k].username) \in 1..UsernameMaxLen

\* C20: a register whose username has a character other than a space after
\* the 50th, and whose INSERT the store answered, is answered 500 (not 400),
\* logs 22001 and creates no record; a username longer than 50 characters
\* whose excess is all spaces is not refused: when it is answered 201 the
\* record holds its first 50 characters; and every stored username has
\* between 1 and 50 characters.
C20_OverlongUsernameRefused ==
    /\ \A i \in InsertAnswered :
          /\ Overlong(i) =>
              /\ reqs[i].res = ServerError
              /\ reqs[i].logged = StringTooLong
              /\ \A k \in 1..Len(users) : users[k].password_hash # reqs[i].passwordHash
          /\ (~Overlong(i) /\ Status(i) = 201) =>
              users[RowOf(i)].username =
                  SubSeq(reqs[i].body.username, 1,
                         Min(Len(reqs[i].body.username), UsernameMaxLen))
          /\ ~Overlong(i) => Status(i) \in {201, 409}
    /\ \A k \in 1..Len(users) : Len(users[k].username) \in 1..UsernameMaxLen

\* One register was refused for a username of 51 characters, another with 50
\* characters and a space was stored with 50.
C20_Witness ==
    \E i, j \in InsertAnswered :
        /\ Overlong(i) /\ reqs[i].res = ServerError /\ reqs[i].logged = StringTooLong
        /\ Len(reqs[j].body.username) > UsernameMaxLen
        /\ Status(j) = 201
        /\ Len(users[RowOf(j)].username) = UsernameMaxLen

====
